---- MODULE Spec2Model ----
(***************************************************************************)
(* Model of the sqlight expression algebra (src/src/expr.ts) and of the    *)
(* schema services and SELECT builder (src/unnamed/part_007).              *)
(* Spec is one call of the expression library or of a schema service;      *)
(* SpecSelect is the life of one SELECT builder.                           *)
(*                                                                         *)
(* Native JavaScript values are records with a field t (the typeof /       *)
(* instanceof class); SQL expression objects are records with a field cls  *)
(* (the class that constructed them) and the two public fields of          *)
(* SqlExpression, type and canBeNull.  A thrown exception is the record    *)
(* Throw(kind).  Rendered SQL is a string.                                 *)
(***************************************************************************)
EXTENDS Integers, Sequences, FiniteSets, TLC

VARIABLES call, ret, rendered, sqlSelect, selCall, selRet, subqueryExpr,
          _db, mutex, calls, connections

vars == <<call, ret, rendered, sqlSelect, selCall, selRet, subqueryExpr,
          _db, mutex, calls, connections>>
exprVars == <<call, ret, rendered>>
selectVars == <<sqlSelect, selCall, selRet, subqueryExpr>>
dbVars == <<_db, mutex, calls, connections>>

(***************************************************************************)
(* Bounds                                                                  *)
(***************************************************************************)
\* longest operand list handed to an n-ary combinator, IN list or CASE
MaxLen == 3
\* most rows handed to getInsertRowsSql
MaxRows == 2
\* most from(), where() and orderBy() calls on one builder, taken together
MaxEntries == 3
\* most calls issued on one SqlightDatabase
MaxCalls == 3

(***************************************************************************)
(* Native values                                                           *)
(***************************************************************************)
SqlType == {"TEXT", "VARCHAR", "INTEGER", "REAL", "BOOLEAN", "TIMESTAMP", "BLOB"}

Undefined == [t |-> "undefined"]
Null == [t |-> "null"]
NativeObject == [t |-> "object"]
\* a string, as the sequence of its characters
NativeString(chars) == [t |-> "string", chars |-> chars]
\* a number, held in tenths so that 1.5 is 15 and 1 is 10
NativeNumber(tenths) == [t |-> "number", tenths |-> tenths]
NativeBoolean(b) == [t |-> "boolean", b |-> b]
\* a Date, held as milliseconds since the epoch
NativeDate(ms) == [t |-> "Date", ms |-> ms]
\* a Buffer, as the sequence of its bytes
NativeBuffer(bytes) == [t |-> "Buffer", bytes |-> bytes]

IsExpression(x) == "cls" \in DOMAIN x
IsThrown(x) == "thrown" \in DOMAIN x
Throw(kind) == [thrown |-> kind]

\* JavaScript truthiness, as used by `x ? a : b`, `if (x)` and `!x`
Truthy(x) ==
    IF IsExpression(x) THEN TRUE
    ELSE IF x.t = "string" THEN x.chars # <<>>
    ELSE IF x.t = "number" THEN x.tenths # 0
    ELSE IF x.t = "boolean" THEN x.b
    ELSE IF x.t \in {"undefined", "null"} THEN FALSE
    ELSE TRUE

\* Number.isInteger
NumberIsInteger(tenths) == tenths % 10 = 0

\* String(n) for a number held in tenths
NumberToString(tenths) ==
    LET a == IF tenths < 0 THEN 0 - tenths ELSE tenths
        sign == IF tenths < 0 THEN "-" ELSE ""
    IN  IF a % 10 = 0 THEN sign \o ToString(a \div 10)
        ELSE sign \o ToString(a \div 10) \o "." \o ToString(a % 10)

RECURSIVE JoinStrings(_, _)
\* Array.prototype.join
JoinStrings(seq, sep) ==
    IF Len(seq) = 0 THEN ""
    ELSE IF Len(seq) = 1 THEN seq[1]
    ELSE seq[1] \o sep \o JoinStrings(Tail(seq), sep)

\* value.replace(/'/g, "''") followed by quoting
QuoteString(chars) ==
    "'" \o JoinStrings([i \in 1..Len(chars) |-> IF chars[i] = "'" THEN "''" ELSE chars[i]], "") \o "'"

HexDigit(n) == <<"0", "1", "2", "3", "4", "5", "6", "7", "8", "9", "a", "b", "c", "d", "e", "f">>[n + 1]
\* Buffer.toString("hex")
BufferToHex(bytes) ==
    JoinStrings([i \in 1..Len(bytes) |-> HexDigit(bytes[i] \div 16) \o HexDigit(bytes[i] % 16)], "")

\* Date.toISOString for the instants the model uses
DateToISOString(ms) ==
    IF ms = 0 THEN "1970-01-01T00:00:00.000Z" ELSE "1970-01-01T00:00:00.001Z"

(***************************************************************************)
(* Literal expressions                                                     *)
(***************************************************************************)
SqlLiteral(type, value) ==
    [cls |-> "SqlLiteral", type |-> type, canBeNull |-> FALSE, value |-> value]
SqlNullLiteral(type) ==
    [cls |-> "SqlNullLiteral", type |-> type, canBeNull |-> TRUE]
\* x is the truthiness of the constructor argument (boolean | 0 | 1)
SqlBooleanLiteral(x) ==
    [cls |-> "SqlBooleanLiteral", type |-> "BOOLEAN", canBeNull |-> FALSE,
     value |-> IF x THEN 1 ELSE 0]
SqlStringLiteral(chars) ==
    [cls |-> "SqlStringLiteral", type |-> "TEXT", canBeNull |-> FALSE, value |-> chars]
SqlDateLiteral(ms) ==
    [cls |-> "SqlDateLiteral", type |-> "TIMESTAMP", canBeNull |-> FALSE, value |-> ms]
SqlBufferLiteral(bytes) ==
    [cls |-> "SqlBufferLiteral", type |-> "BLOB", canBeNull |-> FALSE, value |-> bytes]

BOOL(x) == SqlBooleanLiteral(x)
STR(chars) == SqlStringLiteral(chars)
INT(tenths) == SqlLiteral("INTEGER", tenths)
FLOAT(tenths) == SqlLiteral("REAL", tenths)
DATE(ms) == SqlDateLiteral(ms)
BLOB(bytes) == SqlBufferLiteral(bytes)

\* the expression factory
EXPR_NumberIsInteger(x) ==
    IF IsExpression(x) THEN x
    ELSE IF x.t = "string" THEN STR(x.chars)
    ELSE IF x.t = "number" THEN INT(x.tenths)
    ELSE IF x.t = "boolean" THEN BOOL(x.b)
    ELSE IF x.t = "Date" THEN DATE(x.ms)
    ELSE IF x.t = "Buffer" THEN BLOB(x.bytes)
    ELSE Throw("InvalidLiteral")
EXPR(x) ==
    IF IsExpression(x) THEN x
    ELSE IF x.t = "string" THEN STR(x.chars)
    ELSE IF x.t = "number" THEN (IF NumberIsInteger(x.tenths) THEN INT(x.tenths) ELSE FLOAT(x.tenths))
    ELSE IF x.t = "boolean" THEN BOOL(x.b)
    ELSE IF x.t = "Date" THEN DATE(x.ms)
    ELSE IF x.t = "Buffer" THEN BLOB(x.bytes)
    ELSE Throw("InvalidLiteral")

\* a literal of an explicit type; null and undefined give the typed NULL
LITERAL(type, x) ==
    IF x.t \in {"null", "undefined"} THEN SqlNullLiteral(type)
    ELSE IF type = "BOOLEAN" THEN BOOL(Truthy(x))
    ELSE IF type \in {"TEXT", "VARCHAR"} THEN STR(x.chars)
    ELSE IF type = "INTEGER" THEN INT(x.tenths)
    ELSE IF type = "REAL" THEN FLOAT(x.tenths)
    ELSE IF type = "TIMESTAMP" THEN DATE(x.ms)
    ELSE BLOB(x.bytes)

EXPR_UNDEF(x) == IF Truthy(x) THEN EXPR(x) ELSE Undefined

\* a JavaScript array
Array(items) == [t |-> "array", items |-> items]

\* list.map(EXPR): the first element EXPR rejects throws
EXPRs(list) ==
    IF \E i \in 1..Len(list) : IsThrown(EXPR(list[i])) THEN Throw("InvalidLiteral")
    ELSE Array([i \in 1..Len(list) |-> EXPR(list[i])])
NoType == "undefined"

RECURSIVE TYPE(_)
\* the type of the first expression found in x, descending into arrays
TYPE(x) ==
    IF Len(x) = 0 THEN NoType
    ELSE LET s == x[1] IN
         IF IsExpression(s) THEN s.type
         ELSE IF ~ Truthy(s) THEN TYPE(Tail(x))
         ELSE LET t == TYPE(s.items) IN
              IF t # NoType THEN t ELSE TYPE(Tail(x))

(***************************************************************************)
(* Type assertions of SqlExpression                                        *)
(***************************************************************************)
assertIsBoolean(e) == IF e.type = "BOOLEAN" THEN e ELSE Throw("TypeMismatch")
assertIsText(e) == IF e.type = "TEXT" \/ e.type = "VARCHAR" THEN e ELSE Throw("TypeMismatch")
assertIsNumeric(e) == IF e.type = "REAL" \/ e.type = "INTEGER" THEN e ELSE Throw("TypeMismatch")

(***************************************************************************)
(* Composite expressions: the constructors                                 *)
(***************************************************************************)
SqlIsNull(ex) == [cls |-> "SqlIsNull", type |-> "BOOLEAN", canBeNull |-> FALSE, ex |-> ex]
SqlIsNotNull(ex) == [cls |-> "SqlIsNotNull", type |-> "BOOLEAN", canBeNull |-> FALSE, ex |-> ex]

SqlUnaryOperator(type, prefix, x, suffix) ==
    [cls |-> "SqlUnaryOperator", type |-> type, canBeNull |-> x.canBeNull,
     prefix |-> prefix, x |-> x, suffix |-> suffix]

\* slip: list.every(s => s.canBeNull) where "some operand" is meant
InheritedCanBeNull_Every(list) == \A i \in 1..Len(list) : list[i].canBeNull

\* canBeNull inherited from the list: !list.every(s => !s.canBeNull)
InheritedCanBeNull(list) == ~ (\A i \in 1..Len(list) : ~ list[i].canBeNull)

\* canBeNullOverride ?? inherited; the override is Undefined or a native boolean
MultiCanBeNull(list, canBeNullOverride) ==
    IF canBeNullOverride.t \in {"undefined", "null"}
    THEN InheritedCanBeNull(list) ELSE canBeNullOverride.b

SqlMultiOperator(type, op, list, canBeNullOverride) ==
    [cls |-> "SqlMultiOperator", type |-> type,
     canBeNull |-> MultiCanBeNull(list, canBeNullOverride), op |-> op, list |-> list]

SqlMultiFunction_NoOverride(type, op, list, canBeNullOverride) ==
    SqlMultiOperator(type, op, list, canBeNullOverride)
SqlMultiFunction(type, op, list, canBeNullOverride) ==
    [SqlMultiOperator(type, op, list, canBeNullOverride) EXCEPT !.cls = "SqlMultiFunction"]

\* slip: the promotion looks at the left operand only
SqlBinaryArithmeticOperator_LhsOnly(op, lhs, rhs) ==
    [SqlMultiOperator(IF lhs.type = "REAL" THEN "REAL" ELSE "INTEGER",
                      op, <<lhs, rhs>>, Undefined)
     EXCEPT !.cls = "SqlBinaryArithmeticOperator"]

SqlBinaryArithmeticOperator(op, lhs, rhs) ==
    [SqlMultiOperator(IF lhs.type = "REAL" \/ rhs.type = "REAL" THEN "REAL" ELSE "INTEGER",
                      op, <<lhs, rhs>>, Undefined)
     EXCEPT !.cls = "SqlBinaryArithmeticOperator"]

\* slip: no override, so COALESCE inherits "some operand can be null"
SqlCoalesce_Inherit(list) ==
    IF Len(list) = 0 THEN Throw("TypeError")
    ELSE [SqlMultiFunction(list[1].type, "COALESCE", list, Undefined)
          EXCEPT !.cls = "SqlCoalesce"]

\* list[0].type of an empty list is a TypeError
SqlCoalesce(list) ==
    IF Len(list) = 0 THEN Throw("TypeError")
    ELSE [SqlMultiFunction(list[1].type, "COALESCE", list,
                           NativeBoolean(\A i \in 1..Len(list) : list[i].canBeNull))
          EXCEPT !.cls = "SqlCoalesce"]

\* slip: no override, so IN inherits the nullability of its list
SqlInList_Inherit(ex, list) ==
    [cls |-> "SqlInList", type |-> "BOOLEAN",
     canBeNull |-> MultiCanBeNull(list, Undefined),
     ex |-> ex, op |-> "IN", list |-> list]

SqlInList(ex, list) ==
    [cls |-> "SqlInList", type |-> "BOOLEAN",
     canBeNull |-> MultiCanBeNull(list, NativeBoolean(FALSE)),
     ex |-> ex, op |-> "IN", list |-> list]

SqlInSubquery(ex, subquery) ==
    [cls |-> "SqlInSubquery", type |-> "BOOLEAN", canBeNull |-> FALSE,
     ex |-> ex, subquery |-> subquery]

\* whenList is a sequence of <<when, then>> pairs; elseExpr is an expression or Undefined
SqlCase(whenList, elseExpr) ==
    LET thens == [i \in 1..Len(whenList) |-> whenList[i][2]]
        allValues == IF Truthy(elseExpr) THEN Append(thens, elseExpr) ELSE thens
        type == TYPE(<<Array(allValues)>>)
        canBeNull == IF ~ Truthy(elseExpr) THEN TRUE
                     ELSE ~ (\A i \in 1..Len(allValues) : ~ allValues[i].canBeNull)
    IN  IF type = NoType THEN Throw("InvariantFailed")
        ELSE [cls |-> "SqlCase", type |-> type, canBeNull |-> canBeNull,
              whenList |-> whenList, elseExpr |-> elseExpr, allValues |-> allValues]

\* leaf classes of the select builder
SqlColumn(tableAlias, columnName, column) ==
    [cls |-> "SqlColumn", type |-> column.type, canBeNull |-> (column.nullable = TRUE),
     tableAlias |-> tableAlias, columnName |-> columnName]
SqlSubquery(type, sql) ==
    [cls |-> "SqlSubquery", type |-> type, canBeNull |-> TRUE, sql |-> sql]

(***************************************************************************)
(* Rendering                                                               *)
(***************************************************************************)
\* slip: the operands get the outer hint unchanged
GroupInner_Outer(grouped, n) == grouped
\* slip: a grouped operator wraps itself whatever its operand count
GroupOuter_Always(grouped, n) == grouped

\* SqlMultiOperator.toSql: the hint passed to the n operands
GroupInner(grouped, n) == grouped \/ n > 1
\* SqlMultiOperator.toSql: whether the joined operands are parenthesised
GroupOuter(grouped, n) == grouped /\ n > 1

RECURSIVE toSql(_, _)
toSql(e, grouped) ==
    LET Wrap(sql) == IF grouped THEN "(" \o sql \o ")" ELSE sql
        Args(list, g) == [i \in 1..Len(list) |-> toSql(list[i], g)]
    IN
    IF e.cls = "SqlLiteral" THEN NumberToString(e.value)
    ELSE IF e.cls = "SqlBooleanLiteral" THEN ToString(e.value)
    ELSE IF e.cls = "SqlNullLiteral" THEN "NULL"
    ELSE IF e.cls = "SqlStringLiteral" THEN QuoteString(e.value)
    ELSE IF e.cls = "SqlDateLiteral" THEN DateToISOString(e.value)
    ELSE IF e.cls = "SqlBufferLiteral" THEN "x'" \o BufferToHex(e.value) \o "'"
    ELSE IF e.cls = "SqlColumn" THEN e.tableAlias \o "." \o e.columnName
    ELSE IF e.cls = "SqlSubquery" THEN e.sql
    ELSE IF e.cls = "SqlIsNull" THEN toSql(e.ex, TRUE) \o " IS NULL"
    ELSE IF e.cls = "SqlIsNotNull" THEN toSql(e.ex, TRUE) \o " IS NOT NULL"
    ELSE IF e.cls = "SqlUnaryOperator" THEN Wrap(e.prefix \o toSql(e.x, FALSE) \o e.suffix)
    ELSE IF e.cls \in {"SqlMultiOperator", "SqlBinaryArithmeticOperator"} THEN
        LET groupInner == GroupInner(grouped, Len(e.list))
            groupOuter == GroupOuter(grouped, Len(e.list))
            sql == JoinStrings(Args(e.list, groupInner), e.op)
        IN  IF groupOuter THEN "(" \o sql \o ")" ELSE sql
    ELSE IF e.cls \in {"SqlMultiFunction", "SqlCoalesce"} THEN
        e.op \o "(" \o JoinStrings(Args(e.list, FALSE), ",") \o ")"
    ELSE IF e.cls = "SqlInList" THEN
        Wrap(toSql(e.ex, TRUE) \o " " \o e.op \o "(" \o JoinStrings(Args(e.list, FALSE), ",") \o ")")
    ELSE IF e.cls = "SqlInSubquery" THEN
        Wrap(toSql(e.ex, TRUE) \o " IN " \o toSql(e.subquery, TRUE))
    ELSE \* SqlCase
        LET whens == [i \in 1..Len(e.whenList) |->
                        "WHEN " \o toSql(e.whenList[i][1], FALSE) \o
                        " THEN " \o toSql(e.whenList[i][2], FALSE)]
            sql == JoinStrings(whens, " ")
        IN  "CASE " \o (IF Truthy(e.elseExpr) THEN sql \o " ELSE " \o toSql(e.elseExpr, FALSE) ELSE sql)
            \o " END"

(***************************************************************************)
(* Operator combinators: free functions and receiver methods               *)
(***************************************************************************)
COALESCE(list) ==
    LET l == EXPRs(list) IN IF IsThrown(l) THEN l ELSE SqlCoalesce(l.items)
CONCAT(list) ==
    LET l == EXPRs(list) IN
    IF IsThrown(l) THEN l ELSE SqlMultiOperator("TEXT", "||", l.items, Undefined)
AND(list) ==
    LET l == EXPRs(list) IN
    IF IsThrown(l) THEN l ELSE SqlMultiOperator("BOOLEAN", " AND ", l.items, Undefined)
OR(list) ==
    LET l == EXPRs(list) IN
    IF IsThrown(l) THEN l ELSE SqlMultiOperator("BOOLEAN", " OR ", l.items, Undefined)
NOT(x) ==
    LET e == EXPR(x) IN
    IF IsThrown(e) THEN e ELSE SqlUnaryOperator("BOOLEAN", "NOT (", e, ")")

\* whenList is a sequence of <<when expression, then input value>> pairs
CASE_(whenList, elseExpr) ==
    LET thens == EXPRs([i \in 1..Len(whenList) |-> whenList[i][2]])
        els == EXPR_UNDEF(elseExpr)
    IN  IF IsThrown(thens) THEN thens
        ELSE IF IsThrown(els) THEN els
        ELSE SqlCase([i \in 1..Len(whenList) |-> <<whenList[i][1], thens.items[i]>>], els)

isNotNull(this) == SqlIsNotNull(this)
isNull(this) == SqlIsNull(this)

\* the six comparisons share one shape: new SqlMultiOperator('BOOLEAN', op, [this, EXPR(rhs)])
Comparison(op, this, rhs) ==
    LET r == EXPR(rhs) IN
    IF IsThrown(r) THEN r ELSE SqlMultiOperator("BOOLEAN", op, <<this, r>>, Undefined)
eq(this, rhs) == Comparison("=", this, rhs)
ne(this, rhs) == Comparison("!=", this, rhs)
lt(this, rhs) == Comparison("<", this, rhs)
le(this, rhs) == Comparison("<=", this, rhs)
gt(this, rhs) == Comparison(">", this, rhs)
ge(this, rhs) == Comparison(">=", this, rhs)

and(this, rhs) ==
    LET l == assertIsBoolean(this) IN IF IsThrown(l) THEN l ELSE AND(<<l, rhs>>)
or(this, rhs) ==
    LET l == assertIsBoolean(this) IN IF IsThrown(l) THEN l ELSE OR(<<l, rhs>>)
not(this) ==
    LET l == assertIsBoolean(this) IN IF IsThrown(l) THEN l ELSE NOT(l)

\* add, sub and mul share one shape
Arithmetic(op, this, rhs) ==
    LET l == assertIsNumeric(this)
        r == EXPR(rhs)
    IN  IF IsThrown(l) THEN l
        ELSE IF IsThrown(r) THEN r
        ELSE SqlBinaryArithmeticOperator(op, l, r)
add(this, rhs) == Arithmetic("+", this, rhs)
sub(this, rhs) == Arithmetic("-", this, rhs)
mul(this, rhs) == Arithmetic("*", this, rhs)
div(this, rhs) ==
    LET l == assertIsNumeric(this)
        r == EXPR(rhs)
    IN  IF IsThrown(l) THEN l
        ELSE IF IsThrown(r) THEN r
        ELSE SqlMultiOperator("REAL", "/", <<l, r>>, Undefined)

includes(this, substr) ==
    LET l == assertIsText(this)
        r == EXPR(substr)
    IN  IF IsThrown(l) THEN l
        ELSE IF IsThrown(r) THEN r
        ELSE SqlMultiFunction("BOOLEAN", "INSTR", <<l, r>>, Undefined)

inList(this, list) ==
    LET l == EXPRs(list) IN IF IsThrown(l) THEN l ELSE SqlInList(this, l.items)

inSubquery(this, subq) == SqlInSubquery(this, subq)

(***************************************************************************)
(* Input values the calls are tried on                                     *)
(***************************************************************************)
Foo == <<"f", "o", "o">>
BoolTrue == BOOL(TRUE)
BoolFalse == BOOL(FALSE)
IdColumn == SqlColumn("u", "id", [type |-> "INTEGER", nullable |-> FALSE])
ApiKeyColumn == SqlColumn("u", "apiKey", [type |-> "TEXT", nullable |-> TRUE])

\* values EXPR accepts
ValidNatives ==
    { NativeString(Foo), NativeString(<<>>), NativeString(<<"o", "'", "k">>),
      NativeNumber(10), NativeNumber(0), NativeNumber(15),
      NativeBoolean(TRUE), NativeBoolean(FALSE),
      NativeDate(0), NativeBuffer(<<104, 105>>) }
\* values EXPR rejects
InvalidNatives == { Undefined, Null, NativeObject, Array(<<>>) }

\* atomic expressions: literals of every type, typed NULLs, columns, a subquery
AtomicExpressions ==
    { EXPR(x) : x \in ValidNatives }
    \cup { SqlNullLiteral(type) : type \in SqlType }
    \cup { LITERAL("VARCHAR", NativeString(Foo)), IdColumn, ApiKeyColumn,
           SqlSubquery("INTEGER", "(SELECT 123 AS id)") }

\* composite expressions, one of every class and nesting the claims speak of
CompositeExpressions ==
    { OR(<<BoolTrue, BoolFalse>>),
      AND(<<BoolTrue>>),
      AND(<<OR(<<BoolTrue, BoolFalse>>)>>),
      OR(<<AND(<<BoolTrue>>)>>),
      AND(<<>>),
      NOT(BoolFalse),
      isNull(ApiKeyColumn),
      eq(IdColumn, SqlNullLiteral("INTEGER")),
      add(IdColumn, NativeNumber(15)),
      CONCAT(<<ApiKeyColumn, NativeString(Foo)>>),
      COALESCE(<<ApiKeyColumn, NativeString(Foo)>>),
      inList(IdColumn, <<NativeNumber(10), NativeNumber(0)>>),
      CASE_(<<<<BoolTrue, NativeNumber(10)>>>>, NativeNumber(20)) }

Expressions == AtomicExpressions \cup CompositeExpressions
InputValues == Expressions \cup ValidNatives \cup InvalidNatives

\* the elements of operand lists
ListValues ==
    { NativeBoolean(TRUE), NativeString(Foo), NativeNumber(10), Undefined,
      SqlNullLiteral("BOOLEAN"), SqlNullLiteral("TEXT"), ApiKeyColumn,
      OR(<<BoolTrue, BoolFalse>>), AND(<<BoolTrue>>),
      eq(IdColumn, SqlNullLiteral("INTEGER")) }
\* the optional ELSE of a CASE
ElseValues ==
    { Undefined, NativeNumber(0), NativeBoolean(FALSE), NativeString(<<>>),
      NativeNumber(10), NativeString(Foo), SqlNullLiteral("INTEGER"), IdColumn }
InListReceivers ==
    { IdColumn, ApiKeyColumn, SqlNullLiteral("TEXT"), OR(<<BoolTrue, BoolFalse>>) }
WhenExpression == eq(ApiKeyColumn, NativeString(Foo))

ListsOf(S, n) == UNION { [1..k -> S] : k \in 0..n }
OperandLists == ListsOf(ListValues, MaxLen) \cup { <<x>> : x \in InputValues }

\* the native values LITERAL is declared to take for a type
NativeFor(type) ==
    IF type = "BOOLEAN" THEN { x \in ValidNatives : x.t = "boolean" } \cup { NativeNumber(0), NativeNumber(10) }
    ELSE IF type \in {"TEXT", "VARCHAR"} THEN { x \in ValidNatives : x.t = "string" }
    ELSE IF type \in {"INTEGER", "REAL"} THEN { x \in ValidNatives : x.t = "number" }
    ELSE IF type = "TIMESTAMP" THEN { x \in ValidNatives : x.t = "Date" }
    ELSE { x \in ValidNatives : x.t = "Buffer" }

(***************************************************************************)
(* Schema and SELECT builder (src/unnamed/part_007)                        *)
(*                                                                         *)
(* A JavaScript object or Map is the sequence of its entries in insertion  *)
(* order.  The builder object is a record of its six private fields.       *)
(* limit and offset are whole numbers (not tenths).                        *)
(***************************************************************************)
\* Number.MAX_SAFE_INTEGER, the "no limit" sentinel; the model takes the
\* largest integer of the checker in place of 2^53 - 1
MAX_SAFE_INTEGER == 2147483647

\* the columns of table user of the test schema, in declaration order
UserColumns ==
    << [name |-> "id", type |-> "INTEGER", nullable |-> FALSE],
       [name |-> "login", type |-> "TEXT", nullable |-> FALSE],
       [name |-> "apiKey", type |-> "TEXT", nullable |-> TRUE],
       [name |-> "isAdmin", type |-> "BOOLEAN", nullable |-> FALSE] >>

\* row[name] of a row object, held as the sequence of its fields [name, value]
RowGet(row, name) ==
    IF \E i \in 1..Len(row) : row[i].name = name
    THEN row[CHOOSE i \in 1..Len(row) : row[i].name = name].value
    ELSE Undefined

\* RowFormatter.getSqlExpressions(row): D.OMAP over the columns
getSqlExpressions_SkipMissing(columns, row) ==
    LET InRow(col) == \E i \in 1..Len(row) : row[i].name = col.name
        present == SelectSeq(columns, InRow)
    IN  [i \in 1..Len(present) |->
            [name |-> present[i].name,
             expr |-> LITERAL(present[i].type, RowGet(row, present[i].name))]]
getSqlExpressions(columns, row) ==
    [i \in 1..Len(columns) |->
        [name |-> columns[i].name,
         expr |-> LITERAL(columns[i].type, RowGet(row, columns[i].name))]]
\* RowFormatter.getColumnList(): D.KEYS of the columns
getColumnList(columns) == [i \in 1..Len(columns) |-> columns[i].name]

\* SqlSchema.getInsertRowsSql(tableName, rows); rows is null, undefined or an array
getInsertRowsSql(tableName, rows) ==
    IF rows.t \in {"null", "undefined"} \/ Len(rows.items) = 0 THEN ""
    ELSE LET data == [r \in 1..Len(rows.items) |->
                 "(" \o JoinStrings([k \in 1..Len(getSqlExpressions(UserColumns, rows.items[r])) |->
                         toSql(getSqlExpressions(UserColumns, rows.items[r])[k].expr, FALSE)], ",")
                 \o ")"]
         IN "INSERT INTO " \o tableName \o " (" \o JoinStrings(getColumnList(UserColumns), ",")
            \o ") VALUES\n" \o JoinStrings(data, ",\n")

\* Map.get / Map.set on a sequence of entries [alias, expr]
MapHas(entries, alias) == \E i \in 1..Len(entries) : entries[i].alias = alias
MapGet_OrFirst(entries, alias) ==
    IF MapHas(entries, alias)
    THEN entries[CHOOSE i \in 1..Len(entries) : entries[i].alias = alias].expr
    ELSE IF Len(entries) > 0 THEN entries[1].expr
    ELSE Undefined
MapGet(entries, alias) ==
    IF MapHas(entries, alias)
    THEN entries[CHOOSE i \in 1..Len(entries) : entries[i].alias = alias].expr
    ELSE Undefined
MapSet_Append(entries, alias, expr) ==
    Append(entries, [alias |-> alias, expr |-> expr])
MapSet(entries, alias, expr) ==
    IF MapHas(entries, alias)
    THEN [i \in 1..Len(entries) |->
             IF entries[i].alias = alias THEN [alias |-> alias, expr |-> expr] ELSE entries[i]]
    ELSE Append(entries, [alias |-> alias, expr |-> expr])

\* new SqlFromTable(tables, tableName, alias); col is read through TableCol
SqlFromTable(tableName, alias) == [tableName |-> tableName, alias |-> alias]
TableCol(table, i) ==
    SqlColumn(table.alias, UserColumns[i].name,
              [type |-> UserColumns[i].type, nullable |-> UserColumns[i].nullable])

\* an absent joinType (undefined) is the empty string: the code only tests it
\* for truthiness
NoJoinType == ""

\* the fields of a new SqlSelect
NewSqlSelect ==
    [selectSql |-> <<>>, joins |-> <<>>, wheres |-> <<>>, orderBys |-> <<>>,
     limit |-> MAX_SAFE_INTEGER, offset |-> 0]

\* one item of the FROM clause
JoinSql(join) ==
    IF join.joinType # NoJoinType /\ join.joiner # Undefined
    THEN join.joinType \o " " \o join.table.tableName \o " " \o join.table.alias
         \o " ON " \o toSql(join.joiner, TRUE)
    ELSE join.table.tableName \o " " \o join.table.alias

SelectClause(s) ==
    "SELECT " \o JoinStrings([i \in 1..Len(s.selectSql) |->
        toSql(s.selectSql[i].expr, FALSE) \o " AS " \o s.selectSql[i].alias], ", ")
FromClause(s) ==
    "FROM " \o JoinStrings([i \in 1..Len(s.joins) |-> JoinSql(s.joins[i])], " ")
WhereClause(s) == "WHERE " \o toSql(AND(s.wheres), FALSE)
OrderByClause(s) ==
    "ORDER BY " \o JoinStrings([i \in 1..Len(s.orderBys) |->
        toSql(s.orderBys[i].value, FALSE) \o " " \o s.orderBys[i].ascending], ", ")
SqlLimit(s) == IF s.limit < MAX_SAFE_INTEGER THEN "LIMIT " \o ToString(s.limit) ELSE ""
SqlOffset(s) == IF s.offset > 0 THEN " OFFSET " \o ToString(s.offset) ELSE ""

\* the array pieces of SqlSelect.toSql, as it stands at the final join
Pieces(s) ==
    <<SelectClause(s)>>
    \o (IF Len(s.joins) > 0 THEN <<FromClause(s)>> ELSE <<>>)
    \o (IF Len(s.wheres) > 0 THEN <<WhereClause(s)>> ELSE <<>>)
    \o (IF Len(s.orderBys) > 0 THEN <<OrderByClause(s)>> ELSE <<>>)
    \o (IF SqlLimit(s) # "" \/ SqlOffset(s) # "" THEN <<SqlLimit(s) \o SqlOffset(s)>> ELSE <<>>)

\* SqlSelect.toSql()
SqlSelect_toSql_NoSentinel(s) == JoinStrings(Pieces(s), "\n")
SqlSelect_toSql(s) ==
    IF Len(s.selectSql) = 0 THEN "SELECT 1"
    ELSE JoinStrings(Pieces(s), "\n")

\* SqlSelect.asSubquery(alias)
asSubquery_NeverNull(s, alias) ==
    IF MapGet(s.selectSql, alias) = Undefined THEN Throw("InvariantFailed")
    ELSE [SqlSubquery(MapGet(s.selectSql, alias).type, "(" \o SqlSelect_toSql(s) \o ")")
             EXCEPT !.canBeNull = MapGet(s.selectSql, alias).canBeNull]
asSubquery(s, alias) ==
    IF MapGet(s.selectSql, alias) = Undefined THEN Throw("InvariantFailed")
    ELSE SqlSubquery(MapGet(s.selectSql, alias).type, "(" \o SqlSelect_toSql(s) \o ")")

\* row objects of table user: fields in any order, null, missing and extra ones
Field(name, value) == [name |-> name, value |-> value]
Rows ==
    { << Field("apiKey", NativeString(<<"k">>)), Field("id", NativeNumber(1230)),
         Field("isAdmin", NativeBoolean(TRUE)), Field("login", NativeString(Foo)) >>,
      << Field("id", NativeNumber(3210)), Field("login", NativeString(<<>>)),
         Field("apiKey", Null), Field("isAdmin", NativeBoolean(FALSE)) >>,
      << Field("isAdmin", NativeBoolean(FALSE)), Field("apiKey", NativeString(Foo)),
         Field("login", NativeString(<<"o", "'", "k">>)), Field("id", NativeNumber(0)) >>,
      << Field("isAdmin", NativeBoolean(TRUE)), Field("id", NativeNumber(10)) >>,
      << Field("login", NativeString(Foo)), Field("other", NativeNumber(10)),
         Field("id", NativeNumber(20)), Field("isAdmin", NativeBoolean(TRUE)) >>,
      << >> }
RowLists == { Null, Undefined } \cup { Array(l) : l \in ListsOf(Rows, MaxRows) }

(***************************************************************************)
(* State: one call of the library, its outcome, one rendering of it        *)
(***************************************************************************)
NotCalled == [op |-> "none", this |-> Undefined, args |-> <<>>, els |-> Undefined]
NotRendered == [done |-> FALSE, grouped |-> FALSE, sql |-> ""]
NoSelectCall == [op |-> "none", args |-> <<>>]
\* new Mutex(): free, with nobody waiting
NewMutex == [locked |-> FALSE, queue |-> <<>>]

Init ==
    /\ call = NotCalled
    /\ ret = Undefined
    /\ rendered = NotRendered
    /\ sqlSelect = NewSqlSelect
    /\ selCall = NoSelectCall
    /\ selRet = Undefined
    /\ subqueryExpr = Undefined
    /\ _db = Null
    /\ mutex = NewMutex
    /\ calls = <<>>
    /\ connections = {}

\* the call op(this; args; els) returns or throws result
Returns(op, this, args, els, result) ==
    /\ call' = [op |-> op, this |-> this, args |-> args, els |-> els]
    /\ ret' = result
    /\ UNCHANGED rendered
    /\ UNCHANGED selectVars
    /\ UNCHANGED dbVars

CallEXPR ==
    /\ call = NotCalled
    /\ \E x \in InputValues : Returns("EXPR", Undefined, <<x>>, Undefined, EXPR(x))

CallLITERAL ==
    /\ call = NotCalled
    /\ \E type \in SqlType : \E x \in NativeFor(type) \cup {Null, Undefined} :
           Returns("LITERAL", Undefined, <<NativeString(<<type>>), x>>, Undefined, LITERAL(type, x))

CallComparison ==
    /\ call = NotCalled
    /\ \E this \in Expressions, rhs \in InputValues :
           \/ Returns("eq", this, <<rhs>>, Undefined, eq(this, rhs))
           \/ Returns("ne", this, <<rhs>>, Undefined, ne(this, rhs))
           \/ Returns("lt", this, <<rhs>>, Undefined, lt(this, rhs))
           \/ Returns("le", this, <<rhs>>, Undefined, le(this, rhs))
           \/ Returns("gt", this, <<rhs>>, Undefined, gt(this, rhs))
           \/ Returns("ge", this, <<rhs>>, Undefined, ge(this, rhs))

CallArithmetic ==
    /\ call = NotCalled
    /\ \E this \in Expressions, rhs \in InputValues :
           \/ Returns("add", this, <<rhs>>, Undefined, add(this, rhs))
           \/ Returns("sub", this, <<rhs>>, Undefined, sub(this, rhs))
           \/ Returns("mul", this, <<rhs>>, Undefined, mul(this, rhs))
           \/ Returns("div", this, <<rhs>>, Undefined, div(this, rhs))

CallBooleanMethod ==
    /\ call = NotCalled
    /\ \E this \in Expressions :
           \/ \E rhs \in InputValues : Returns("and", this, <<rhs>>, Undefined, and(this, rhs))
           \/ \E rhs \in InputValues : Returns("or", this, <<rhs>>, Undefined, or(this, rhs))
           \/ Returns("not", this, <<>>, Undefined, not(this))

CallNullTest ==
    /\ call = NotCalled
    /\ \E this \in Expressions :
           \/ Returns("isNull", this, <<>>, Undefined, isNull(this))
           \/ Returns("isNotNull", this, <<>>, Undefined, isNotNull(this))

CallIncludes ==
    /\ call = NotCalled
    /\ \E this \in Expressions, substr \in InputValues :
           Returns("includes", this, <<substr>>, Undefined, includes(this, substr))

CallInList ==
    /\ call = NotCalled
    /\ \E this \in InListReceivers, list \in OperandLists :
           Returns("inList", this, list, Undefined, inList(this, list))

CallInSubquery ==
    /\ call = NotCalled
    /\ \E this \in Expressions, subq \in Expressions :
           Returns("inSubquery", this, <<subq>>, Undefined, inSubquery(this, subq))

CallCombinator ==
    /\ call = NotCalled
    /\ \E list \in OperandLists :
           \/ Returns("AND", Undefined, list, Undefined, AND(list))
           \/ Returns("OR", Undefined, list, Undefined, OR(list))
           \/ Returns("CONCAT", Undefined, list, Undefined, CONCAT(list))
           \/ Returns("COALESCE", Undefined, list, Undefined, COALESCE(list))

CallNOT ==
    /\ call = NotCalled
    /\ \E x \in InputValues : Returns("NOT", Undefined, <<x>>, Undefined, NOT(x))

CallCASE ==
    /\ call = NotCalled
    /\ \E thens \in ListsOf(ListValues, MaxLen), elseExpr \in ElseValues :
           Returns("CASE", Undefined, thens, elseExpr,
                   CASE_([i \in 1..Len(thens) |-> <<WhenExpression, thens[i]>>], elseExpr))

CallGetInsertRowsSql ==
    /\ call = NotCalled
    /\ \E rows \in RowLists :
           Returns("getInsertRowsSql", Undefined, <<rows>>, Undefined,
                   [sql |-> getInsertRowsSql("user", rows)])

\* ret.toSql(grouped) on the expression the call returned
Render ==
    /\ IsExpression(ret)
    /\ ~ rendered.done
    /\ \E grouped \in BOOLEAN :
        rendered' = [done |-> TRUE, grouped |-> grouped, sql |-> toSql(ret, grouped)]
    /\ UNCHANGED <<call, ret>>
    /\ UNCHANGED selectVars
    /\ UNCHANGED dbVars

Next ==
    \/ CallEXPR
    \/ CallLITERAL
    \/ CallComparison
    \/ CallArithmetic
    \/ CallBooleanMethod
    \/ CallNullTest
    \/ CallIncludes
    \/ CallInList
    \/ CallInSubquery
    \/ CallCombinator
    \/ CallNOT
    \/ CallCASE
    \/ CallGetInsertRowsSql
    \/ Render

Spec == Init /\ [][Next]_vars

TypeOK ==
    /\ call.op \in {"none", "EXPR", "LITERAL", "eq", "ne", "lt", "le", "gt", "ge", "add", "sub",
                    "mul", "div", "and", "or", "not", "isNull", "isNotNull", "includes",
                    "inList", "inSubquery", "AND", "OR", "CONCAT", "COALESCE", "NOT", "CASE",
                    "getInsertRowsSql"}
    /\ rendered.done \in BOOLEAN

(***************************************************************************)
(* State machine of one SELECT builder: sqlSelect holds its fields,        *)
(* selCall the last method called on it and selRet what the call returned  *)
(* or threw.                                                               *)
(***************************************************************************)
\* the value of `return this`
This == [this |-> TRUE]

\* inputs of the builder methods
SelectAliases == {"a", "apiKey"}
SelectValues == { NativeNumber(10), Undefined }
PassThroughColumns == { ApiKeyColumn }
\* the caller names the k-th table of the FROM clause
FromAlias(k) == IF k = 1 THEN "u" ELSE "u" \o ToString(k)
Entries(s) == Len(s.joins) + Len(s.wheres) + Len(s.orderBys)
JoinTypes == { NoJoinType, "JOIN" }
\* fJoin: absent, t => t.col.login.eq(u.col.login), or a callback that throws
NofJoin == [fJoin |-> "none"]
OnLogin == [fJoin |-> "login"]
Throwing == [fJoin |-> "throws"]
ApplyfJoin(fJoin, table) ==
    IF fJoin = Throwing THEN Throw("Error")
    ELSE eq(TableCol(table, 2), TableCol(SqlFromTable("user", "u"), 2))
WhereValues == { ne(IdColumn, NativeNumber(10)), Undefined }
OrderByValues == { IdColumn, Undefined }
Ascending == { "ASC", "DESC" }
LimitValues == { 10 }
OffsetValues == { 0, 5 }

\* the method op(args) leaves the builder as next and returns or throws
\* result; an expression taken from the builder earlier is another object,
\* which no method of the builder reaches
SelectReturns_LiveSubquery(op, args, next, result) ==
    /\ selCall' = [op |-> op, args |-> args]
    /\ selRet' = result
    /\ sqlSelect' = next
    /\ subqueryExpr' = IF IsExpression(subqueryExpr)
                       THEN SqlSubquery(subqueryExpr.type, "(" \o SqlSelect_toSql(next) \o ")")
                       ELSE subqueryExpr
    /\ UNCHANGED exprVars
    /\ UNCHANGED dbVars
SelectReturns(op, args, next, result) ==
    /\ selCall' = [op |-> op, args |-> args]
    /\ selRet' = result
    /\ sqlSelect' = next
    /\ UNCHANGED subqueryExpr
    /\ UNCHANGED exprVars
    /\ UNCHANGED dbVars

\* SqlSelect.select(alias, sql) on the builder s
select(s, alias, sql) ==
    IF IsThrown(EXPR(sql)) THEN s
    ELSE [s EXCEPT !.selectSql = MapSet(@, alias, EXPR(sql))]

CallSelect ==
    \E alias \in SelectAliases, sql \in SelectValues :
        SelectReturns("select", <<alias, sql>>, select(sqlSelect, alias, sql),
                      IF IsThrown(EXPR(sql)) THEN EXPR(sql) ELSE This)

CallPassThrough ==
    \E col \in PassThroughColumns :
        SelectReturns("passThrough", <<col.columnName, col>>,
                      select(sqlSelect, col.columnName, col), This)

\* the joiner of the entry from() builds: fJoin is called only with a joinType
Joiner(alias, tableName, joinType, fJoin) ==
    IF joinType # NoJoinType /\ fJoin # NofJoin
    THEN ApplyfJoin(fJoin, SqlFromTable(tableName, alias))
    ELSE Undefined

\* SqlSelect.from(alias, tableName, joinType, fJoin): the entry is built, and
\* fJoin called, before joins.push runs
from_PushFirst(s, alias, tableName, joinType, fJoin) ==
    [s EXCEPT !.joins = Append(@,
        [table |-> SqlFromTable(tableName, alias),
         joinType |-> joinType,
         joiner |-> IF IsThrown(Joiner(alias, tableName, joinType, fJoin)) THEN Undefined
                    ELSE Joiner(alias, tableName, joinType, fJoin)])]
from(s, alias, tableName, joinType, fJoin) ==
    IF IsThrown(Joiner(alias, tableName, joinType, fJoin)) THEN s
    ELSE [s EXCEPT !.joins = Append(@,
            [table |-> SqlFromTable(tableName, alias),
             joinType |-> joinType,
             joiner |-> Joiner(alias, tableName, joinType, fJoin)])]

CallFrom ==
    /\ Entries(sqlSelect) < MaxEntries
    /\ \E joinType \in JoinTypes, fJoin \in { NofJoin, OnLogin, Throwing } :
        LET alias == FromAlias(Len(sqlSelect.joins) + 1) IN
        SelectReturns("from", <<alias, joinType, fJoin>>,
                      from(sqlSelect, alias, "user", joinType, fJoin),
                      IF IsThrown(Joiner(alias, "user", joinType, fJoin))
                      THEN Joiner(alias, "user", joinType, fJoin)
                      ELSE SqlFromTable("user", alias))

CallWhere ==
    /\ Entries(sqlSelect) < MaxEntries
    /\ \E sql \in WhereValues :
        IF IsThrown(EXPR(sql))
        THEN SelectReturns("where", <<sql>>, sqlSelect, EXPR(sql))
        ELSE SelectReturns("where", <<sql>>,
                           [sqlSelect EXCEPT !.wheres = Append(@, EXPR(sql))], This)

CallSetLimit ==
    \E n \in LimitValues :
        SelectReturns("setLimit", <<n>>, [sqlSelect EXCEPT !.limit = n], This)

CallSetOffset ==
    \E n \in OffsetValues :
        SelectReturns("setOffset", <<n>>, [sqlSelect EXCEPT !.offset = n], This)

CallOrderBy ==
    /\ Entries(sqlSelect) < MaxEntries
    /\ \E sql \in OrderByValues, ascending \in Ascending :
        IF IsThrown(EXPR(sql))
        THEN SelectReturns("orderBy", <<sql, ascending>>, sqlSelect, EXPR(sql))
        ELSE SelectReturns("orderBy", <<sql, ascending>>,
                           [sqlSelect EXCEPT !.orderBys =
                               Append(@, [value |-> EXPR(sql), ascending |-> ascending])],
                           This)

CallToSql_SetsLimit ==
    SelectReturns("toSql", <<>>, [sqlSelect EXCEPT !.limit = 1],
                  [sql |-> SqlSelect_toSql([sqlSelect EXCEPT !.limit = 1])])
CallToSql ==
    SelectReturns("toSql", <<>>, sqlSelect, [sql |-> SqlSelect_toSql(sqlSelect)])

CallAsSubquery ==
    \E alias \in SelectAliases :
        SelectReturns("asSubquery", <<alias>>, sqlSelect, asSubquery(sqlSelect, alias))

\* SqlightDatabase.selectOne(select), up to the call of queryOne: selRet.sql
\* is the text handed to it
CallSelectOne_Restores ==
    SelectReturns("selectOne", <<>>, sqlSelect,
                  [sql |-> SqlSelect_toSql([sqlSelect EXCEPT !.limit = 1])])
CallSelectOne ==
    SelectReturns("selectOne", <<>>, [sqlSelect EXCEPT !.limit = 1],
                  [sql |-> SqlSelect_toSql([sqlSelect EXCEPT !.limit = 1])])

\* SqlightDatabase.selectAll(select), up to the call of queryAll
CallSelectAll ==
    SelectReturns("selectAll", <<>>, sqlSelect, [sql |-> SqlSelect_toSql(sqlSelect)])

\* expr.toSql(grouped) on the i-th where expression
CallExprToSql ==
    \E i \in 1..Len(sqlSelect.wheres), grouped \in BOOLEAN :
        SelectReturns("expr.toSql", <<i, grouped>>, sqlSelect,
                      [sql |-> toSql(sqlSelect.wheres[i], grouped)])

NextSelect ==
    \/ CallExprToSql
    \/ CallSelect
    \/ CallPassThrough
    \/ CallFrom
    \/ CallWhere
    \/ CallSetLimit
    \/ CallSetOffset
    \/ CallOrderBy
    \/ CallToSql
    \/ CallAsSubquery
    \/ CallSelectOne
    \/ CallSelectAll

SpecSelect == Init /\ [][NextSelect]_vars

(***************************************************************************)
(* A builder and one expression taken from it with asSubquery and kept by  *)
(* the caller in subqueryExpr while the builder is changed further.  The   *)
(* builders looked at have at most one projection and at most one entry in *)
(* joins, wheres and orderBys together.                                    *)
(***************************************************************************)
SubqueryScope == Len(sqlSelect.selectSql) <= 1 /\ Entries(sqlSelect) <= 1

\* asSubquery(alias) on a bound alias, the caller keeping the result
TakeSubquery ==
    \E alias \in SelectAliases :
        /\ MapHas(sqlSelect.selectSql, alias)
        /\ selCall' = [op |-> "asSubquery", args |-> <<alias>>]
        /\ selRet' = asSubquery(sqlSelect, alias)
        /\ subqueryExpr' = asSubquery(sqlSelect, alias)
        /\ UNCHANGED sqlSelect
        /\ UNCHANGED exprVars
        /\ UNCHANGED dbVars

NextSubquery ==
    \/ TakeSubquery
    \/ CallSelect /\ SubqueryScope'
    \/ CallPassThrough /\ SubqueryScope'
    \/ CallFrom /\ SubqueryScope'
    \/ CallWhere /\ SubqueryScope'
    \/ CallOrderBy /\ SubqueryScope'
    \/ CallSetLimit
    \/ CallSetOffset

SpecSubquery == Init /\ [][NextSubquery]_vars

(***************************************************************************)
(* SqlightDatabase.  One connection object is used by callers that do not  *)
(* wait for one another.  calls lists the calls in the order in which they *)
(* were issued; call c is at calls[c].pc:                                  *)
(*   "queued"  waiting in the mutex,                                       *)
(*   "locked"  the mutex is acquired, the callback has not begun,          *)
(*   "open", "all", "get", "close"  awaiting that call of the driver,      *)
(*   "done"    the promise handed to the caller is settled.                *)
(* calls[c].db is the handle the callback holds, calls[c].failed the       *)
(* driver call that rejected, calls[c].outcome how the caller's promise    *)
(* settled.  _db is the field of the connection object; connections is the *)
(* set of handles open on the driver's side.  A callback runs from one     *)
(* await of the driver to the next without interruption; the driver may    *)
(* resolve or reject every call made to it.                                *)
(***************************************************************************)
Methods == { "queryAll", "queryOne", "selectAll", "selectOne", "getTables", "close" }

\* the driver method a query method of the facade ends in
DriverOp(method) == IF method \in { "queryOne", "selectOne" } THEN "get" ELSE "all"

DriverPcs == { "open", "all", "get", "close" }

Waiters(m) == { m.queue[i] : i \in DOMAIN m.queue }

\* mutex.acquire() by call c: the lock is taken at once when it is free,
\* otherwise c waits behind the calls already waiting
Acquire_NoWait(m, c) == [m EXCEPT !.locked = TRUE]
Acquire(m, c) ==
    IF m.locked THEN [m EXCEPT !.queue = Append(@, c)] ELSE [m EXCEPT !.locked = TRUE]

\* mutex.release(): the lock passes to the call that has waited longest
Release_Lifo(m) ==
    IF m.queue = <<>> THEN [m EXCEPT !.locked = FALSE]
    ELSE [m EXCEPT !.queue = SubSeq(@, 1, Len(@) - 1)]
Release(m) ==
    IF m.queue = <<>> THEN [m EXCEPT !.locked = FALSE] ELSE [m EXCEPT !.queue = Tail(@)]

\* runExclusive releases the mutex however the callback settled
Finally_OnlyOnSuccess(m, outcome) == IF outcome = "rejected" THEN m ELSE Release(m)
Finally(m, outcome) == Release(m)

\* a method of the facade is called: runExclusive asks for the mutex
Issue ==
    /\ Len(calls) < MaxCalls
    /\ \E method \in Methods :
        LET c == Len(calls) + 1 IN
        /\ mutex' = Acquire(mutex, c)
        /\ calls' = Append(calls, [method |-> method,
                                   pc |-> IF c \in Waiters(mutex') THEN "queued" ELSE "locked",
                                   db |-> Null, failed |-> "none", outcome |-> "pending"])
    /\ UNCHANGED <<_db, connections>>
    /\ UNCHANGED <<exprVars, selectVars>>

\* the callback of call c moves on to pc, holding the handle db
Goto(c, pc, db) ==
    /\ calls' = [calls EXCEPT ![c].pc = pc, ![c].db = db]
    /\ UNCHANGED mutex

\* the callback of call c settles: the mutex is released, the call it
\* passes to leaves the queue, and the caller's promise settles as the
\* callback did
Settle(c, outcome, failed) ==
    /\ mutex' = Finally(mutex, outcome)
    /\ calls' = [i \in DOMAIN calls |->
                    IF i = c
                    THEN [calls[i] EXCEPT !.pc = "done", !.outcome = outcome, !.failed = failed]
                    ELSE IF i \in Waiters(mutex) \ Waiters(mutex')
                    THEN [calls[i] EXCEPT !.pc = "locked"]
                    ELSE calls[i]]

\* db() of a query finds no handle: open() calls the driver's open
BeginOpen_Always ==
    /\ \E c \in DOMAIN calls :
        /\ calls[c].pc = "locked"
        /\ calls[c].method # "close"
        /\ Goto(c, "open", Null)
    /\ UNCHANGED <<_db, connections>>
    /\ UNCHANGED <<exprVars, selectVars>>
BeginOpen ==
    /\ _db = Null
    /\ \E c \in DOMAIN calls :
        /\ calls[c].pc = "locked"
        /\ calls[c].method # "close"
        /\ Goto(c, "open", Null)
    /\ UNCHANGED <<_db, connections>>
    /\ UNCHANGED <<exprVars, selectVars>>

\* db() of a query returns the handle held: db.all(sql) or db.get(sql)
BeginQuery ==
    /\ _db # Null
    /\ \E c \in DOMAIN calls :
        /\ calls[c].pc = "locked"
        /\ calls[c].method # "close"
        /\ Goto(c, DriverOp(calls[c].method), _db)
    /\ UNCHANGED <<_db, connections>>
    /\ UNCHANGED <<exprVars, selectVars>>

\* close() finds a handle: this._db.close()
BeginClose ==
    /\ _db # Null
    /\ \E c \in DOMAIN calls :
        /\ calls[c].pc = "locked"
        /\ calls[c].method = "close"
        /\ Goto(c, "close", _db)
    /\ UNCHANGED <<_db, connections>>
    /\ UNCHANGED <<exprVars, selectVars>>

\* close() finds no handle: it resolves without calling the driver
CloseNothing_CallsDriver ==
    /\ _db = Null
    /\ \E c \in DOMAIN calls :
        /\ calls[c].pc = "locked"
        /\ calls[c].method = "close"
        /\ Goto(c, "close", _db)
    /\ UNCHANGED <<_db, connections>>
    /\ UNCHANGED <<exprVars, selectVars>>
CloseNothing ==
    /\ _db = Null
    /\ \E c \in DOMAIN calls :
        /\ calls[c].pc = "locked"
        /\ calls[c].method = "close"
        /\ Settle(c, "resolved", "none")
    /\ UNCHANGED <<_db, connections>>
    /\ UNCHANGED <<exprVars, selectVars>>

\* the driver's open resolves with a new handle: open() stores it in _db,
\* db() returns it, and db.all(sql) or db.get(sql) is called on it
OpenCompletes ==
    /\ \E c \in DOMAIN calls :
        /\ calls[c].pc = "open"
        /\ _db' = [handle |-> c]
        /\ connections' = connections \cup { [handle |-> c] }
        /\ Goto(c, DriverOp(calls[c].method), [handle |-> c])
    /\ UNCHANGED <<exprVars, selectVars>>

\* the driver's open rejects: _db stays as it is and the callback rejects
OpenFails ==
    /\ \E c \in DOMAIN calls :
        /\ calls[c].pc = "open"
        /\ Settle(c, "rejected", "open")
    /\ UNCHANGED <<_db, connections>>
    /\ UNCHANGED <<exprVars, selectVars>>

\* db.all(sql) or db.get(sql) resolves, and the callback with it
QueryCompletes ==
    /\ \E c \in DOMAIN calls :
        /\ calls[c].pc \in { "all", "get" }
        /\ Settle(c, "resolved", "none")
    /\ UNCHANGED <<_db, connections>>
    /\ UNCHANGED <<exprVars, selectVars>>

\* db.all(sql) or db.get(sql) rejects, and the callback with it
QueryFails ==
    /\ \E c \in DOMAIN calls :
        /\ calls[c].pc \in { "all", "get" }
        /\ Settle(c, "rejected", calls[c].pc)
    /\ UNCHANGED <<_db, connections>>
    /\ UNCHANGED <<exprVars, selectVars>>

\* this._db.close() resolves: the handle is closed and _db is set to null
CloseCompletes ==
    /\ \E c \in DOMAIN calls :
        /\ calls[c].pc = "close"
        /\ _db' = Null
        /\ connections' = connections \ { calls[c].db }
        /\ Settle(c, "resolved", "none")
    /\ UNCHANGED <<exprVars, selectVars>>

\* this._db.close() rejects: the assignment of null is not reached, the
\* handle stays open and stays in _db
CloseFails ==
    /\ \E c \in DOMAIN calls :
        /\ calls[c].pc = "close"
        /\ Settle(c, "rejected", "close")
    /\ UNCHANGED <<_db, connections>>
    /\ UNCHANGED <<exprVars, selectVars>>

\* the steps the event loop and the driver take once a call is issued
Run ==
    \/ BeginOpen
    \/ BeginQuery
    \/ BeginClose
    \/ CloseNothing
    \/ OpenCompletes
    \/ OpenFails
    \/ QueryCompletes
    \/ QueryFails
    \/ CloseCompletes
    \/ CloseFails

NextDb ==
    \/ Issue
    \/ BeginOpen
    \/ BeginQuery
    \/ BeginClose
    \/ CloseNothing
    \/ OpenCompletes
    \/ OpenFails
    \/ QueryCompletes
    \/ QueryFails
    \/ CloseCompletes
    \/ CloseFails

SpecDb == Init /\ [][NextDb]_vars

\* every callback that can go on does, and every call of the driver settles
SpecDbFair == Init /\ [][NextDb]_vars /\ WF_vars(Run)

(***************************************************************************)
(* Vocabulary of the properties                                            *)
(***************************************************************************)
Numeric == {"INTEGER", "REAL"}
ArithmeticOps == {"add", "sub", "mul", "div"}
ComparisonOps == {"eq", "ne", "lt", "le", "gt", "ge"}
MethodOps == ComparisonOps \cup ArithmeticOps \cup {"and", "or", "not", "includes", "inList", "inSubquery"}
\* the operands of the call, the receiver first
Operands == IF call.op \in MethodOps THEN <<call.this>> \o call.args ELSE call.args
AllConvertible(list) == \A i \in 1..Len(list) : ~ IsThrown(EXPR(list[i]))
SomeNullable(list) == \E i \in 1..Len(list) : EXPR(list[i]).canBeNull
Called(ops) == call.op \in ops /\ AllConvertible(Operands)

\* the children of an expression node
NumChildren(e) ==
    IF e.cls \in {"SqlIsNull", "SqlIsNotNull", "SqlUnaryOperator"} THEN 1
    ELSE IF e.cls \in {"SqlMultiOperator", "SqlBinaryArithmeticOperator",
                       "SqlMultiFunction", "SqlCoalesce"} THEN Len(e.list)
    ELSE IF e.cls = "SqlInList" THEN 1 + Len(e.list)
    ELSE IF e.cls = "SqlInSubquery" THEN 2
    ELSE IF e.cls = "SqlCase" THEN 2 * Len(e.whenList) + (IF Truthy(e.elseExpr) THEN 1 ELSE 0)
    ELSE 0

(***************************************************************************)
(* Properties                                                              *)
(***************************************************************************)

\* C1: on numeric operands add, sub and mul return an expression of type
\* INTEGER when both operands are INTEGER and REAL otherwise; div returns REAL.
C1_ArithmeticPromotion ==
    (Called(ArithmeticOps) /\ \A i \in 1..2 : EXPR(Operands[i]).type \in Numeric) =>
        /\ IsExpression(ret)
        /\ ret.type = IF call.op = "div" THEN "REAL"
                      ELSE IF \A i \in 1..2 : EXPR(Operands[i]).type = "INTEGER" THEN "INTEGER"
                      ELSE "REAL"

C1_Witness ==
    /\ call.op = "mul"
    /\ call.this.type = "INTEGER"
    /\ AllConvertible(call.args) /\ EXPR(call.args[1]).type = "REAL"
    /\ IsExpression(ret) /\ ret.type = "REAL"

\* C2: add, sub, mul and div throw a type mismatch, and build no expression,
\* whenever the receiver or the argument is not INTEGER or REAL.
C2_ArithmeticRejectsNonNumeric ==
    (Called(ArithmeticOps) /\ \E i \in 1..2 : EXPR(Operands[i]).type \notin Numeric) =>
        ret = Throw("TypeMismatch")

\* C3: and/or/not and AND/OR/NOT throw a type mismatch whenever an operand is
\* not BOOLEAN, and whatever they return is BOOLEAN.
C3_BooleanCombinatorsRejectNonBoolean ==
    Called({"and", "or", "not", "AND", "OR", "NOT"}) =>
        /\ (\E i \in 1..Len(Operands) : EXPR(Operands[i]).type # "BOOLEAN") =>
               ret = Throw("TypeMismatch")
        /\ IsExpression(ret) => ret.type = "BOOLEAN"

\* C4: an infix operator expression can be null exactly when one of its
\* operands can be null, for any number of operands.
C4_InfixNullableIffSomeOperand ==
    (/\ Called(ComparisonOps \cup ArithmeticOps \cup {"and", "or", "AND", "OR", "CONCAT"})
     /\ IsExpression(ret)) =>
        ret.canBeNull = SomeNullable(Operands)

C4_Witness ==
    /\ call.op = "eq"
    /\ ~ call.this.canBeNull
    /\ call.args = <<SqlNullLiteral(call.this.type)>>
    /\ IsExpression(ret) /\ ret.canBeNull

\* C5: COALESCE of one or more operands can be null exactly when every operand
\* can be null, and has the type of its first operand.
C5_CoalesceNullableIffAll ==
    (Called({"COALESCE"}) /\ Len(call.args) >= 1) =>
        /\ IsExpression(ret)
        /\ ret.canBeNull = (\A i \in 1..Len(call.args) : EXPR(call.args[i]).canBeNull)
        /\ ret.type = EXPR(call.args[1]).type

C5_Witness ==
    /\ call.op = "COALESCE"
    /\ Len(call.args) = 3
    /\ AllConvertible(call.args)
    /\ EXPR(call.args[1]).canBeNull /\ EXPR(call.args[2]).canBeNull
    /\ ~ EXPR(call.args[3]).canBeNull
    /\ IsExpression(ret) /\ ~ ret.canBeNull

\* C6: a CASE without ELSE can be null; a CASE with an ELSE, given as an
\* expression or as any native value EXPR accepts (0, false and '' included),
\* can be null exactly when a then-branch or the else-branch can be null.
C6_CaseNullability ==
    (Called({"CASE"}) /\ IsExpression(ret)) =>
        IF call.els = Undefined THEN ret.canBeNull
        ELSE ~ IsThrown(EXPR(call.els)) =>
                 ret.canBeNull = (SomeNullable(call.args) \/ EXPR(call.els).canBeNull)

\* C7: a CASE whose then-branches and else-branch do not share one SQL type
\* throws a type mismatch; a CASE that is built has the type of all of them.
C7_CaseCommonType ==
    LET branches == IF call.els = Undefined THEN call.args ELSE Append(call.args, call.els)
        types == { EXPR(branches[i]).type : i \in 1..Len(branches) }
    IN  (Called({"CASE"}) /\ AllConvertible(branches)) =>
            /\ Cardinality(types) > 1 => ret = Throw("TypeMismatch")
            /\ IsExpression(ret) => types = {ret.type}

\* C8: inList and inSubquery return a BOOLEAN that cannot be null, whatever
\* the nullability of the receiver, the list elements or the subquery.
C8_InIsNeverNull ==
    (Called({"inList", "inSubquery"})) =>
        /\ IsExpression(ret)
        /\ ret.type = "BOOLEAN"
        /\ ~ ret.canBeNull

C8_Witness ==
    /\ call.op = "inList"
    /\ call.this.canBeNull
    /\ Len(call.args) >= 1 /\ AllConvertible(call.args) /\ SomeNullable(call.args)
    /\ IsExpression(ret) /\ ret.type = "BOOLEAN" /\ ~ ret.canBeNull

\* C9: AND(x) and OR(x) of a single BOOLEAN x render exactly as x renders
\* under the same grouped hint.
C9_SingleOperandRendersAsOperand ==
    (/\ Called({"AND", "OR"}) /\ Len(call.args) = 1
     /\ EXPR(call.args[1]).type = "BOOLEAN"
     /\ rendered.done) =>
        rendered.sql = toSql(EXPR(call.args[1]), rendered.grouped)

C9_Witness ==
    /\ call.op = "AND"
    /\ call.args = <<OR(<<AND(<<BoolTrue>>)>>)>>
    /\ rendered.done /\ rendered.grouped
    /\ rendered.sql = "1"

\* C10 as stated: an expression with more than one child renders grouped as
\* its ungrouped rendering in parentheses, and one with at most one child
\* renders the same under both hints.
C10_GroupingByChildCount ==
    (rendered.done /\ rendered.grouped) =>
        rendered.sql = IF NumChildren(ret) > 1 THEN "(" \o toSql(ret, FALSE) \o ")"
                       ELSE toSql(ret, FALSE)

\* C10 as amended: an infix operator with more than one operand, a unary
\* operator, an IN list and an IN subquery render grouped as their ungrouped
\* rendering in parentheses; a single-operand infix operator renders as its
\* operand does under the same hint; every other expression renders the same
\* under both hints.
C10_GroupingByClass ==
    rendered.done =>
        IF \/ ret.cls \in {"SqlUnaryOperator", "SqlInList", "SqlInSubquery"}
           \/ ret.cls \in {"SqlMultiOperator", "SqlBinaryArithmeticOperator"} /\ Len(ret.list) > 1
        THEN rendered.grouped => rendered.sql = "(" \o toSql(ret, FALSE) \o ")"
        ELSE IF ret.cls = "SqlMultiOperator" /\ Len(ret.list) = 1
        THEN rendered.sql = toSql(ret.list[1], rendered.grouped)
        ELSE rendered.sql = toSql(ret, FALSE)

C10_Witness ==
    /\ call.op = "OR"
    /\ Len(call.args) = 3
    /\ rendered.done /\ rendered.grouped
    /\ \E i \in 1..3 : NumChildren(ret.list[i]) > 1
    /\ rendered.sql = "(" \o toSql(ret, FALSE) \o ")"

(***************************************************************************)
(* The SELECT builder (checked under SpecSelect)                           *)
(***************************************************************************)
\* the last call was toSql(): selRet.sql is the text it returned
ToSqlCalled == selCall.op = "toSql"
HasProjection == Len(sqlSelect.selectSql) > 0
LimitSet == sqlSelect.limit < MAX_SAFE_INTEGER
\* the first four clauses the state calls for, in the fixed order
ClausesBeforeLimit ==
    <<SelectClause(sqlSelect)>>
    \o (IF Len(sqlSelect.joins) > 0 THEN <<FromClause(sqlSelect)>> ELSE <<>>)
    \o (IF Len(sqlSelect.wheres) > 0 THEN <<WhereClause(sqlSelect)>> ELSE <<>>)
    \o (IF Len(sqlSelect.orderBys) > 0 THEN <<OrderByClause(sqlSelect)>> ELSE <<>>)
\* LIMIT <n>[ OFFSET <m>]
LimitClause ==
    "LIMIT " \o ToString(sqlSelect.limit)
    \o (IF sqlSelect.offset > 0 THEN " OFFSET " \o ToString(sqlSelect.offset) ELSE "")

\* C11: a builder without projections renders as exactly SELECT 1, whatever
\* from, where, orderBy, setLimit and setOffset calls were made on it.
C11_NoProjectionIsSelect1 ==
    (ToSqlCalled /\ ~ HasProjection) => selRet.sql = "SELECT 1"

C11_Witness ==
    /\ ToSqlCalled /\ ~ HasProjection
    /\ Len(sqlSelect.joins) > 0 /\ Len(sqlSelect.wheres) > 0 /\ Len(sqlSelect.orderBys) > 0
    /\ sqlSelect.limit = 10 /\ sqlSelect.offset = 5
    /\ selRet.sql = "SELECT 1"

\* C12: with at least one projection toSql() is the newline-joined list of
\* the present clauses in the order SELECT, FROM, WHERE, ORDER BY,
\* LIMIT/OFFSET, each at most once, a clause being present only if its builder
\* state is non-empty (a join entry, a where, an order-by, a set limit).
C12_ClausesInFixedOrder ==
    (ToSqlCalled /\ HasProjection) =>
        selRet.sql = JoinStrings(ClausesBeforeLimit
                                 \o (IF LimitSet THEN <<LimitClause>> ELSE <<>>), "\n")

\* C13: select and passThrough keep one projection per alias: a call on an
\* unbound alias appends [alias, value] at the end, a call on a bound alias
\* replaces that projection's expression where it stands, and every other
\* projection keeps its place and expression.
C13_OneProjectionPerAlias ==
    /\ [](\A i, j \in 1..Len(sqlSelect.selectSql) :
            sqlSelect.selectSql[i].alias = sqlSelect.selectSql[j].alias => i = j)
    /\ [][(selCall'.op \in {"select", "passThrough"} /\ selRet' = This) =>
            LET alias == selCall'.args[1]
                expr == EXPR(selCall'.args[2])
                old == sqlSelect.selectSql
                new == sqlSelect'.selectSql
            IN  IF \E i \in 1..Len(old) : old[i].alias = alias
                THEN /\ Len(new) = Len(old)
                     /\ \A i \in 1..Len(old) :
                            /\ new[i].alias = old[i].alias
                            /\ new[i].expr = IF old[i].alias = alias THEN expr ELSE old[i].expr
                ELSE new = old \o <<[alias |-> alias, expr |-> expr]>>]_vars

\* select("apiKey", 1) on a builder that had passed u.apiKey through and then
\* selected a: apiKey is still first, a second
C13_Witness ==
    /\ selCall.op = "select" /\ selCall.args[1] = "apiKey" /\ selRet = This
    /\ Len(sqlSelect.selectSql) = 2
    /\ sqlSelect.selectSql[1] = [alias |-> "apiKey", expr |-> EXPR(NativeNumber(10))]
    /\ sqlSelect.selectSql[2].alias = "a"

\* C14: the first join entry has no join kind and no ON predicate, every
\* later entry has both.
C14_JoinEntryShape ==
    \A i \in 1..Len(sqlSelect.joins) :
        IF i = 1
        THEN sqlSelect.joins[i].joinType = NoJoinType /\ sqlSelect.joins[i].joiner = Undefined
        ELSE sqlSelect.joins[i].joinType # NoJoinType /\ sqlSelect.joins[i].joiner # Undefined

\* C15: an offset without a limit adds no line to the output; with both set
\* and the offset positive the last line is LIMIT <n> OFFSET <m>.
C15_OffsetOnlyAfterLimit ==
    (ToSqlCalled /\ HasProjection /\ sqlSelect.offset > 0) =>
        IF LimitSet
        THEN selRet.sql = JoinStrings(ClausesBeforeLimit \o
                 <<"LIMIT " \o ToString(sqlSelect.limit) \o " OFFSET " \o ToString(sqlSelect.offset)>>, "\n")
        ELSE selRet.sql = JoinStrings(ClausesBeforeLimit, "\n")

\* C16: asSubquery(alias) on a bound alias returns an expression of the
\* projection's type that can be null whether or not the projection can, and
\* that renders, grouped or not, as the builder's SQL in parentheses.
C16_SubqueryOfProjection ==
    (selCall.op = "asSubquery" /\ MapHas(sqlSelect.selectSql, selCall.args[1])) =>
        /\ IsExpression(selRet)
        /\ selRet.type = MapGet(sqlSelect.selectSql, selCall.args[1]).type
        /\ selRet.canBeNull
        /\ \A grouped \in BOOLEAN :
               toSql(selRet, grouped) = "(" \o SqlSelect_toSql(sqlSelect) \o ")"

\* the subquery of a never-null INTEGER projection of a builder with a FROM
C16_Witness ==
    /\ selCall.op = "asSubquery" /\ selCall.args[1] = "a"
    /\ MapHas(sqlSelect.selectSql, "a")
    /\ ~ MapGet(sqlSelect.selectSql, "a").canBeNull
    /\ Len(sqlSelect.joins) > 0
    /\ IsExpression(selRet) /\ selRet.type = "INTEGER" /\ selRet.canBeNull

\* C17: asSubquery(alias) on an alias bound to no projection throws, returns
\* no expression and leaves the builder as it was.
C17_SubqueryOfUnboundAliasFails ==
    [][(selCall'.op = "asSubquery" /\ ~ MapHas(sqlSelect.selectSql, selCall'.args[1])) =>
            /\ IsThrown(selRet')
            /\ sqlSelect' = sqlSelect]_vars

\* asSubquery("a") on a builder whose only projection is apiKey
C17_Witness ==
    /\ selCall.op = "asSubquery" /\ selCall.args[1] = "a"
    /\ ~ MapHas(sqlSelect.selectSql, "a") /\ MapHas(sqlSelect.selectSql, "apiKey")
    /\ selRet = Throw("InvariantFailed")

\* C18: toSql() of the builder and toSql(grouped) of an expression leave the
\* builder's six fields as they were, and the same rendering asked twice in a
\* row returns the same text.
C18_RenderingChangesNothing ==
    [][(selCall'.op \in {"toSql", "expr.toSql"}) =>
            /\ sqlSelect' = sqlSelect
            /\ (selCall.op = selCall'.op /\ selCall.args = selCall'.args) => selRet' = selRet]_vars

\* toSql() of a builder with every clause
C18_Witness ==
    /\ ToSqlCalled /\ HasProjection
    /\ Len(sqlSelect.joins) > 0 /\ Len(sqlSelect.wheres) > 0 /\ Len(sqlSelect.orderBys) > 0
    /\ LimitSet /\ sqlSelect.offset > 0
    /\ selRet.sql = SqlSelect_toSql(sqlSelect)

(***************************************************************************)
(* Row insertion and the expression factory (checked under Spec)           *)
(***************************************************************************)
\* what the claim calls for in place k of the tuple of a row
TupleValue(row, k) ==
    IF RowGet(row, UserColumns[k].name) \in {Null, Undefined} THEN "NULL"
    ELSE toSql(LITERAL(UserColumns[k].type, RowGet(row, UserColumns[k].name)), FALSE)
Tuple(row) == "(" \o JoinStrings([k \in 1..Len(UserColumns) |-> TupleValue(row, k)], ",") \o ")"

\* C19: for a non-empty row list getInsertRowsSql emits the columns in schema
\* order and one tuple per row, in row order, of one value per schema column
\* in that order, whatever the field order of the row; a null or missing
\* field is NULL.
C19_InsertRowsInSchemaOrder ==
    (call.op = "getInsertRowsSql" /\ call.args[1].t = "array" /\ Len(call.args[1].items) > 0) =>
        LET rows == call.args[1].items IN
        ret.sql = "INSERT INTO user (id,login,apiKey,isAdmin) VALUES\n"
                  \o JoinStrings([r \in 1..Len(rows) |-> Tuple(rows[r])], ",\n")

\* two rows: fields in another order than the schema's, then one with fields
\* missing
C19_Witness ==
    /\ call.op = "getInsertRowsSql" /\ call.args[1].t = "array"
    /\ Len(call.args[1].items) = 2
    /\ Len(call.args[1].items[1]) = 4 /\ call.args[1].items[1][1].name = "apiKey"
    /\ Len(call.args[1].items[2]) = 2
    /\ ret.sql = "INSERT INTO user (id,login,apiKey,isAdmin) VALUES\n(123,'foo','k',1),\n(1,NULL,NULL,1)"

LiteralClasses ==
    {"SqlLiteral", "SqlBooleanLiteral", "SqlStringLiteral", "SqlDateLiteral", "SqlBufferLiteral"}
\* the type EXPR gives a native value, NoType where it accepts none
LiteralTypeOf(x) ==
    IF x.t = "string" THEN "TEXT"
    ELSE IF x.t = "number" THEN (IF x.tenths % 10 = 0 THEN "INTEGER" ELSE "REAL")
    ELSE IF x.t = "boolean" THEN "BOOLEAN"
    ELSE IF x.t = "Date" THEN "TIMESTAMP"
    ELSE IF x.t = "Buffer" THEN "BLOB"
    ELSE NoType

\* C20: EXPR returns an expression unchanged, turns a string, integer,
\* non-integer number, boolean, Date or Buffer into a never-null literal of
\* type TEXT, INTEGER, REAL, BOOLEAN, TIMESTAMP or BLOB, and throws for every
\* other value.
C20_ExprFactory ==
    call.op = "EXPR" =>
        LET x == call.args[1] IN
        IF IsExpression(x) THEN ret = x
        ELSE IF LiteralTypeOf(x) = NoType THEN ret = Throw("InvalidLiteral")
        ELSE /\ IsExpression(ret)
             /\ ret.cls \in LiteralClasses
             /\ ret.type = LiteralTypeOf(x)
             /\ ~ ret.canBeNull

C20_Witness ==
    /\ call.op = "EXPR"
    /\ call.args[1] = NativeNumber(15)
    /\ IsExpression(ret) /\ ret.type = "REAL" /\ ~ ret.canBeNull

(***************************************************************************)
(* Parenthesisation of nested expressions (checked under Spec)             *)
(***************************************************************************)
\* an infix operator with at least two operands
Infix2(e) ==
    e.cls \in {"SqlMultiOperator", "SqlBinaryArithmeticOperator"} /\ Len(e.list) >= 2
\* e behind the single-operand infix wrappers around it
RECURSIVE Unwrap(_)
Unwrap(e) ==
    IF e.cls = "SqlMultiOperator" /\ Len(e.list) = 1 THEN Unwrap(e.list[1]) ELSE e
Composite(e) == Infix2(e) \/ e.cls \in {"SqlUnaryOperator", "SqlInList", "SqlInSubquery"}
\* the expressions directly below a node
Children(e) ==
    IF e.cls \in {"SqlIsNull", "SqlIsNotNull"} THEN {e.ex}
    ELSE IF e.cls = "SqlUnaryOperator" THEN {e.x}
    ELSE IF e.cls \in {"SqlMultiOperator", "SqlBinaryArithmeticOperator",
                       "SqlMultiFunction", "SqlCoalesce"} THEN { e.list[i] : i \in 1..Len(e.list) }
    ELSE IF e.cls = "SqlInList" THEN {e.ex} \cup { e.list[i] : i \in 1..Len(e.list) }
    ELSE IF e.cls = "SqlInSubquery" THEN {e.ex, e.subquery}
    ELSE IF e.cls = "SqlCase" THEN
        { e.whenList[i][1] : i \in 1..Len(e.whenList) }
        \cup { e.whenList[i][2] : i \in 1..Len(e.whenList) }
        \cup (IF IsExpression(e.elseExpr) THEN {e.elseExpr} ELSE {})
    ELSE {}
RECURSIVE SubExpressions(_)
SubExpressions(e) == {e} \cup UNION { SubExpressions(c) : c \in Children(e) }

\* the text of one operand of an infix operator of two or more operands
OperandText(c) ==
    IF Composite(Unwrap(c)) THEN "(" \o toSql(Unwrap(c), FALSE) \o ")" ELSE toSql(c, TRUE)
InfixText(e, grouped) ==
    LET sql == JoinStrings([i \in 1..Len(e.list) |-> OperandText(e.list[i])], e.op)
    IN  IF grouped THEN "(" \o sql \o ")" ELSE sql

\* C25: in the rendering of an infix operator of two or more operands every
\* composite operand (an infix operator of two or more operands, a unary
\* operator, an IN expression) stands in its own parentheses, under both
\* hints, at every depth, and also behind single-operand wrappers.
C25_CompositeOperandsParenthesised ==
    rendered.done =>
        /\ Infix2(ret) => rendered.sql = InfixText(ret, rendered.grouped)
        /\ \A e \in SubExpressions(ret) : \A grouped \in BOOLEAN :
               Infix2(e) => toSql(e, grouped) = InfixText(e, grouped)

\* AND(OR(1, 0)).eq(NOT(0)) rendered without the hint
C25_Witness ==
    /\ call.op = "eq"
    /\ call.this = AND(<<OR(<<BoolTrue, BoolFalse>>)>>)
    /\ call.args = <<NOT(BoolFalse)>>
    /\ rendered.done /\ ~ rendered.grouped
    /\ rendered.sql = "(1 OR 0)=(NOT (0))"

\* C26 as stated: a function call (COALESCE, INSTR) and an IN list render the
\* same text under both hints.
C26_FunctionAndInListIgnoreHint ==
    (rendered.done /\ call.op \in {"COALESCE", "includes", "inList"}) =>
        rendered.sql = toSql(ret, ~ rendered.grouped)

\* C26 as amended: a function call renders the same text under both hints;
\* an IN list renders under the hint as its rendering without it, in
\* parentheses.
C26_FunctionIgnoresHintInListWraps ==
    /\ (rendered.done /\ call.op \in {"COALESCE", "includes"}) =>
           rendered.sql = toSql(ret, ~ rendered.grouped)
    /\ (rendered.done /\ call.op = "inList") =>
           rendered.sql = IF rendered.grouped THEN "(" \o toSql(ret, FALSE) \o ")"
                          ELSE toSql(ret, FALSE)

C26_Witness ==
    /\ call.op = "includes" /\ call.args = <<NativeString(Foo)>>
    /\ rendered.done /\ rendered.grouped
    /\ rendered.sql = "INSTR(u.apiKey,'foo')"

(***************************************************************************)
(* The facade's selectOne / selectAll on a builder, failed builder calls   *)
(* (checked under SpecSelect) and kept subqueries (under SpecSubquery)     *)
(***************************************************************************)
\* C27: selectOne sets the builder's limit to 1, whatever it was, renders
\* with it and leaves it so: a toSql() or selectAll that follows on a builder
\* with a projection ends in LIMIT 1; selectAll leaves the builder as it was.
C27_SelectOneSetsLimitForGood ==
    [][/\ selCall'.op = "selectOne" =>
            /\ sqlSelect' = [sqlSelect EXCEPT !.limit = 1]
            /\ selRet'.sql = SqlSelect_toSql(sqlSelect')
       /\ selCall'.op = "selectAll" => sqlSelect' = sqlSelect
       /\ (selCall.op = "selectOne" /\ selCall'.op \in {"toSql", "selectAll"} /\ HasProjection) =>
            selRet'.sql = JoinStrings(ClausesBeforeLimit \o
                <<"LIMIT 1" \o (IF sqlSelect.offset > 0
                                THEN " OFFSET " \o ToString(sqlSelect.offset) ELSE "")>>, "\n")
      ]_vars

\* selectAll right after a selectOne on a builder with a projection and a FROM
C27_Witness ==
    /\ selCall.op = "selectAll" /\ HasProjection /\ Len(sqlSelect.joins) > 0
    /\ sqlSelect.limit = 1 /\ sqlSelect.offset = 0
    /\ selRet.sql = JoinStrings(ClausesBeforeLimit \o <<"LIMIT 1">>, "\n")

BuilderMutators == {"select", "passThrough", "from", "where", "orderBy", "setLimit", "setOffset"}

\* C28: a later select, passThrough, from, where, orderBy, setLimit or
\* setOffset on the builder changes neither the type nor the rendering of an
\* expression asSubquery returned earlier, nor the rendering of an IN
\* subquery built from it.
C28_SubqueryIsASnapshot ==
    [][(IsExpression(subqueryExpr) /\ selCall'.op \in BuilderMutators) =>
            /\ subqueryExpr'.type = subqueryExpr.type
            /\ \A grouped \in BOOLEAN :
                /\ toSql(subqueryExpr', grouped) = toSql(subqueryExpr, grouped)
                /\ toSql(inSubquery(IdColumn, subqueryExpr'), grouped)
                       = toSql(inSubquery(IdColumn, subqueryExpr), grouped)]_vars

\* a where() after the subquery was taken: the builder now renders otherwise
C28_Witness ==
    /\ IsExpression(subqueryExpr)
    /\ selCall.op = "where" /\ selRet = This
    /\ toSql(subqueryExpr, FALSE) # "(" \o SqlSelect_toSql(sqlSelect) \o ")"
    /\ toSql(subqueryExpr, FALSE) = "(SELECT 1 AS a)"

\* C30: select, where, orderBy or from that throws leaves the six fields of
\* the builder as they were, so toSql() returns what it returned before.
C30_FailedCallChangesNothing ==
    [][(selCall'.op \in {"select", "where", "orderBy", "from"} /\ IsThrown(selRet')) =>
            /\ sqlSelect' = sqlSelect
            /\ SqlSelect_toSql(sqlSelect') = SqlSelect_toSql(sqlSelect)]_vars

\* a second from() whose join-predicate builder throws
C30_Witness ==
    /\ selCall.op = "from" /\ selCall.args[3] = Throwing
    /\ selRet = Throw("Error")
    /\ HasProjection /\ Len(sqlSelect.joins) = 1

(***************************************************************************)
(* SqlightDatabase: vocabulary                                             *)
(***************************************************************************)
\* the calls that are awaiting the driver
InDriver == { c \in DOMAIN calls : calls[c].pc \in DriverPcs }
\* the calls whose callback has begun and has not settled
Running == { c \in DOMAIN calls : calls[c].pc \in DriverPcs \cup { "locked" } }
IsQuery(c) == calls[c].method # "close"

\* C21: however queryAll, queryOne, selectAll, selectOne, getTables and
\* close calls on one connection object interleave, at most one call of the
\* driver (open, all, get or close) is in progress at any time.
C21_OneDriverInteraction == Cardinality(InDriver) <= 1

\* a query awaits the driver while a close and another query wait behind it
C21_Witness ==
    /\ Len(calls) = 3
    /\ calls[1].pc \in { "all", "get" }
    /\ calls[2].method = "close" /\ calls[2].pc = "queued"
    /\ IsQuery(3) /\ calls[3].pc = "queued"

\* C22: calls issued concurrently on one connection run in the order in
\* which they were issued: when a call has begun its interaction with the
\* driver, or has settled, every call issued before it has settled.
C22_Fifo ==
    \A a, b \in DOMAIN calls :
        a < b /\ calls[b].pc \in DriverPcs \cup { "done" } => calls[a].pc = "done"

\* three calls were issued while the first held the mutex; the first has
\* settled, the second awaits the driver, the third still waits
C22_Witness ==
    /\ Len(calls) = 3
    /\ calls[1].pc = "done"
    /\ calls[2].pc \in DriverPcs
    /\ calls[3].pc = "queued"
    /\ mutex.queue = <<3>>

\* C23: when a call of the driver (open, all, get or close) fails, the call
\* that made it is rejected, the mutex is released, and every call waiting
\* in the mutex is eventually served and settles, given that every call of
\* the driver settles.
C23_ErrorsDeliveredAndQueueServed ==
    /\ [](\A c \in DOMAIN calls :
            calls[c].failed # "none" => calls[c].pc = "done" /\ calls[c].outcome = "rejected")
    /\ [](mutex.locked => Running # {})
    /\ \A c \in 1..MaxCalls :
            (c \in DOMAIN calls /\ calls[c].pc = "queued")
                ~> (c \in DOMAIN calls /\ calls[c].pc = "done" /\ calls[c].outcome # "pending")

\* a query rejected by a failed db.all, then a close rejected by a failed
\* driver close, then a query that resolved; the mutex is free again
C23_Witness ==
    /\ Len(calls) = 3
    /\ calls[1].failed = "all" /\ calls[1].outcome = "rejected"
    /\ calls[2].failed = "close" /\ calls[2].outcome = "rejected"
    /\ IsQuery(3) /\ calls[3].outcome = "resolved"
    /\ mutex = NewMutex

\* C24: close() calls the driver's close only while it holds the mutex and
\* no other call is running, after every call issued before it has settled;
\* those calls made their driver calls on a handle that was open; and a
\* close() that finds no handle resolves without calling the driver.
C24_CloseUnderMutex ==
    /\ [](\A c \in DOMAIN calls :
            calls[c].pc = "close" =>
                /\ mutex.locked
                /\ Running = { c }
                /\ calls[c].db \in connections
                /\ \A a \in DOMAIN calls : a < c => calls[a].pc = "done")
    /\ [](\A c \in DOMAIN calls :
            calls[c].pc \in { "all", "get" } => calls[c].db \in connections)
    /\ [][\A c \in DOMAIN calls :
            /\ calls[c].method = "close"
            /\ calls[c].pc = "locked"
            /\ _db = Null
            /\ calls'[c].pc # "locked"
            => /\ calls'[c].pc = "done"
               /\ calls'[c].outcome = "resolved"
               /\ connections' = connections]_vars

\* a query opened the connection, a close closed it, and a second close,
\* finding no handle, has resolved as well
C24_Witness ==
    /\ Len(calls) = 3
    /\ IsQuery(1) /\ calls[1].outcome = "resolved"
    /\ calls[2].method = "close" /\ calls[2].db = [handle |-> 1]
    /\ calls[2].outcome = "resolved"
    /\ calls[3].method = "close" /\ calls[3].db = Null
    /\ calls[3].outcome = "resolved"
    /\ connections = {}

\* C29: the driver's open is called only by the call that holds the mutex
\* and only while no handle is held, so at most one handle is open at any
\* time and a held handle is replaced by nothing but null; a query that
\* begins when no handle is held, as after a close(), opens the connection
\* and makes its driver call on the new handle.
C29_OpenOnlyWithoutHandle ==
    /\ [](\A c \in DOMAIN calls :
            calls[c].pc = "open" =>
                mutex.locked /\ Running = { c } /\ _db = Null /\ connections = {})
    /\ [](Cardinality(connections) <= 1 /\ (_db # Null => connections = { _db }))
    /\ [][_db # Null => _db' \in { _db, Null }]_vars
    /\ [][\A c \in DOMAIN calls :
            IsQuery(c) /\ calls[c].pc = "locked" /\ _db = Null /\ calls'[c].pc # "locked"
            => calls'[c].pc = "open"]_vars
    /\ [](\A c \in DOMAIN calls :
            calls[c].pc \in { "all", "get" } => calls[c].db = _db /\ _db # Null)

\* a query, a close and a second query were issued together; the second
\* query, served after the close, resolved on a handle it opened itself
C29_Witness ==
    /\ Len(calls) = 3
    /\ IsQuery(1) /\ calls[1].db = [handle |-> 1]
    /\ calls[2].method = "close" /\ calls[2].outcome = "resolved"
    /\ IsQuery(3) /\ calls[3].db = [handle |-> 3]
    /\ calls[3].outcome = "resolved"
    /\ _db = [handle |-> 3]
    /\ connections = { [handle |-> 3] }


====
